---- MODULE Spec2Model ----
(***************************************************************************)
(* Model of src/server.js: an Express application over four Mongoose       *)
(* collections (User, Post, Group, Message) with a JWT access guard.       *)
(*                                                                         *)
(* Every request is handled by an async function; between two awaits the   *)
(* handler runs without interruption, so each action below is one such     *)
(* uninterrupted piece: the synchronous prefix of a handler, or the        *)
(* continuation after one awaited hash / store operation.  Requests are    *)
(* served on Slots concurrent connections; a connection takes its next     *)
(* request once the previous one is answered.  A request enters the model  *)
(* when its body is parsed and routing starts: from there Express runs the *)
(* guard and the handler's prefix synchronously.                           *)
(*                                                                         *)
(* Spec is the whole server.  Its state space is the product of every      *)
(* route's inputs on every connection, so the properties are checked under *)
(* specifications that restrict which requests clients send (SpecAccounts, *)
(* SpecGuard, ...), each built from the same actions.                      *)
(*                                                                         *)
(* Ids: ObjectIds are positive integers (a document's _id is its index in  *)
(* its collection), NullId is null/undefined, BadId is a string that does  *)
(* not cast to an ObjectId.  Time is in seconds: now = floor(Date.now()    *)
(* / 1000), the resolution jsonwebtoken works at.                          *)
(***************************************************************************)
EXTENDS Integers, Sequences, FiniteSets, TLC

\* ---------------------------------------------------------------- bounds
MaxSlots == 2
MaxUsers == 2
MaxPosts == 2
MaxGroups == 1
MaxMessages == 1
MaxTokens == 2
MaxTicks == 2

\* ------------------------------------------------------ program constants
\* jwt.sign(..., { expiresIn: '1h' }), in seconds
ExpiresIn == 3600

Slots == 1..MaxSlots
NullId == 0
BadId == -1
Absent == "<undefined>"
Usernames == {"alice", "bob"}
Emails == {"a@x.com", "b@x.com"}
Passwords == {"pw1", "wrong"}
UserIds == 1..MaxUsers
\* one well-formed id more than can ever be stored, so that a lookup can miss
GroupIds == 1..(MaxGroups + 1)
TickSteps == {1, ExpiresIn - 1}

GuardedRoutes ==
    {"POST /posts", "GET /posts", "POST /groups", "GET /groups/:groupId/posts",
     "POST /groups/:groupId/posts", "POST /messages"}
OpenRoutes == {"GET /", "POST /users/register", "POST /users/login"}

VARIABLES
    users,      \* User collection: Seq of [username, email, password]
    posts,      \* Post collection: Seq of [author, content, group]
    groups,     \* Group collection: Seq of [name, members]
    messages,   \* Message collection: Seq of [sender, receiver, content]
    reqs,       \* per connection: the request being served (or last served)
    issued,     \* tokens handed out by login, which clients may present
    now,        \* floor(Date.now() / 1000)
    ticks       \* number of clock advances so far (bounds the run)

vars == <<users, posts, groups, messages, reqs, issued, now, ticks>>
store == <<users, posts, groups, messages>>

\* ------------------------------------------------------------ credentials
\* argon2.hash(password): a one-way encoding of the plaintext
argon2Hash(plain) == "$argon2id$" \o plain

\* a verification that accepts every password
argon2VerifyAny(hash, plain) == TRUE
\* argon2.verify(user.password, password)
argon2Verify(hash, plain) == hash = argon2Hash(plain)

\* ------------------------------------------------------------------ tokens
NoHeader == [kind |-> "none"]
EmptyHeader == [kind |-> "empty"]
Garbage == [kind |-> "garbage"]

\* jwt.sign({ id: user._id }, JWT_SECRET, { expiresIn: '1h' })
jwtSign(id, clock) ==
    [kind |-> "jwt", id |-> id, iat |-> clock, exp |-> clock + ExpiresIn, sig |-> "ok"]

\* the same token with a byte of its signature changed
Alter(t) == [t EXCEPT !.sig = "altered"]

Invalid == [id |-> NullId, valid |-> FALSE]

\* a verification that does not look at exp
jwtVerifyIgnoreExp(token, clock) ==
    IF token.kind # "jwt" \/ token.sig # "ok" THEN Invalid
    ELSE [id |-> token.id, valid |-> TRUE]
\* jwt.verify(token, JWT_SECRET): throws (Invalid) on a malformed token, a bad
\* signature, or clockTimestamp >= payload.exp; else returns the payload
jwtVerify(token, clock) ==
    IF token.kind # "jwt" THEN Invalid
    ELSE IF token.sig # "ok" THEN Invalid
    ELSE IF clock >= token.exp THEN Invalid
    ELSE [id |-> token.id, valid |-> TRUE]

\* a test for the absent header only (token === undefined)
HeaderMissingOnlyAbsent(hdr) == hdr.kind = "none"
\* !token, for token = req.header('Authorization'): undefined or ''
HeaderMissing(hdr) == hdr.kind \in {"none", "empty"}

\* ---------------------------------------------------------------- requests
EmptyBody == [none |-> TRUE]
NoRes == [status |-> 0, body |-> EmptyBody]

\* a connection with no request on it
Idle ==
    [route |-> "none", hdr |-> NoHeader, groupId |-> NullId, body |-> EmptyBody,
     pc |-> "idle", user |-> NullId, found |-> NullId, hashedPassword |-> Absent,
     res |-> NoRes, sent |-> 0]

Request(route, hdr, groupId, body) ==
    [Idle EXCEPT !.route = route, !.hdr = hdr, !.groupId = groupId, !.body = body]

Free(s) == reqs[s].pc \in {"idle", "done"}
Pending(s) == ~Free(s)

\* a handler path that returns without sending anything
ReplyNothing(r, code, body) == r
\* res.status(code).json(body), after which the handler returns: the request is
\* over, and of it the connection keeps the route, the caller and the response
Reply(r, code, body) ==
    [Idle EXCEPT !.route = r.route, !.user = r.user, !.pc = "done",
                 !.res = [status |-> code, body |-> body], !.sent = r.sent + 1]

\* the guard's two refusals; the refused header stays on record
Refuse(r, code, body) == [Reply(r, code, body) EXCEPT !.hdr = r.hdr]

Message(text) == [message |-> text]

InFlight(routes) ==
    Cardinality({s \in Slots : Pending(s) /\ reqs[s].route \in routes})

\* the collections and the token set are finite here: a request that could add a
\* document (or a token) is taken only while there is room for what it adds
HasRoom(route) ==
    CASE route = "POST /users/register" -> Len(users) + InFlight({route}) < MaxUsers
      [] route = "POST /users/login" -> Cardinality(issued) + InFlight({route}) < MaxTokens
      [] route \in {"POST /posts", "POST /groups/:groupId/posts"} ->
            Len(posts) + InFlight({"POST /posts", "POST /groups/:groupId/posts"}) < MaxPosts
      [] route = "POST /groups" -> Len(groups) + InFlight({route}) < MaxGroups
      [] route = "POST /messages" -> Len(messages) + InFlight({route}) < MaxMessages
      [] OTHER -> TRUE

\* ------------------------------------------------------------ schema rules
\* { type: String, required: true }
Required(v) == v # Absent

\* the cast of a string to an ObjectId
CastsToObjectId(id) == id # BadId

\* a unique index on username alone
UniqueViolationUsernameOnly(coll, doc) ==
    \E i \in 1..Len(coll) : coll[i].username = doc.username
\* the unique indexes on User.username and User.email
UniqueViolation(coll, doc) ==
    \E i \in 1..Len(coll) :
        coll[i].username = doc.username \/ coll[i].email = doc.email

\* PostSchema: author and content required, group an ObjectId or null
ValidPost(doc) ==
    doc.author # NullId /\ Required(doc.content) /\ CastsToObjectId(doc.group)

\* GroupSchema: name required
ValidGroup(doc) == Required(doc.name)

\* MessageSchema: sender, receiver and content required
ValidMessage(doc) ==
    doc.sender # NullId /\ doc.receiver # NullId /\ Required(doc.content)

\* ------------------------------------------------------------------- documents
\* an author taken from the body
PostAuthorFromBody(r) == r.body.author
\* author: req.user.id
PostAuthor(r) == r.user

\* sender: req.user.id
MessageSender(r) == r.user

\* members taken from the body
GroupMembersFromBody(r) == IF r.body.members = NullId THEN {} ELSE {r.body.members}
\* members: [req.user.id]
GroupMembers(r) == {r.user}

\* group: groupId in the group route; left to the schema's default (null) in POST /posts
PostGroup(r) == IF r.route = "POST /groups/:groupId/posts" THEN r.groupId ELSE NullId

\* .populate('author', 'username profilePic')
Populate(post) ==
    [post EXCEPT !.author =
        IF post.author \in 1..Len(users)
        THEN [id |-> post.author, username |-> users[post.author].username]
        ELSE [id |-> NullId, username |-> Absent]]

RECURSIVE PopulateAll(_)
PopulateAll(list) ==
    IF list = <<>> THEN <<>> ELSE <<Populate(Head(list))>> \o PopulateAll(Tail(list))

\* a find without the group filter
FindPostsAll(groupId) == posts
\* Post.find({ group: groupId })
FindPosts(groupId) == SelectSeq(posts, LAMBDA p : p.group = groupId)

\* a lookup that returns any stored group
FindGroupByIdFirst(groupId) == IF Len(groups) > 0 THEN 1 ELSE NullId
\* Group.findById(groupId): the group's _id, or NullId
FindGroupById(groupId) == IF groupId \in 1..Len(groups) THEN groupId ELSE NullId

\* a gate that lets everyone through
IsMemberAlways(group, id) == TRUE
\* group.members.includes(req.user.id)
IsMember(group, id) == id \in group.members

\* User.findOne({ email }): the _id of the first User with that email, or NullId
FindUserByEmail(email) ==
    IF \E i \in 1..Len(users) : users[i].email = email
    THEN CHOOSE i \in 1..Len(users) :
            /\ users[i].email = email
            /\ \A j \in 1..Len(users) : users[j].email = email => i <= j
    ELSE NullId

\* ----------------------------------------------------------------- actions
Init ==
    /\ users = <<>>
    /\ posts = <<>>
    /\ groups = <<>>
    /\ messages = <<>>
    /\ reqs = [s \in Slots |-> Idle]
    /\ issued = {}
    /\ now = 0
    /\ ticks = 0

\* time passes
Tick ==
    /\ ticks < MaxTicks
    /\ \E d \in TickSteps : now' = now + d
    /\ ticks' = ticks + 1
    /\ UNCHANGED <<store, reqs, issued>>

\* app.get('/')
Home(s) ==
    /\ Free(s)
    /\ reqs' = [reqs EXCEPT ![s] =
          Reply(Request("GET /", NoHeader, NullId, EmptyBody), 200,
                Message("Welcome to the Social Media API"))]
    /\ UNCHANGED <<store, issued, now, ticks>>

\* authenticate on a request from `requests`, followed without interruption by
\* the handler up to its first await (next() calls the handler synchronously)
Authenticate(s, requests) ==
    /\ Free(s)
    /\ \E r \in requests :
        LET verified == jwtVerify(r.hdr, now)
        IN  /\ r.route \in GuardedRoutes
            /\ HasRoom(r.route)
            /\ reqs' = [reqs EXCEPT ![s] =
                  IF HeaderMissing(r.hdr) THEN Refuse(r, 401, Message("Access denied"))
                  ELSE IF ~verified.valid THEN Refuse(r, 400, Message("Invalid token"))
                  ELSE [r EXCEPT !.user = verified.id, !.pc = "handler"]]
    /\ UNCHANGED <<store, issued, now, ticks>>

\* ------------------------------------------------------- app.post('/users/register')
\* a registration with a body from `bodies` arrives: argon2.hash is called
RegisterStart(s, bodies) ==
    /\ Free(s)
    /\ HasRoom("POST /users/register")
    /\ \E b \in bodies :
        reqs' = [reqs EXCEPT ![s] =
            [Request("POST /users/register", NoHeader, NullId, b) EXCEPT !.pc = "hashing"]]
    /\ UNCHANGED <<store, issued, now, ticks>>

\* await argon2.hash(password) settles: it rejects for a missing password; else
\* new User(...) is built and save() called
RegisterHashed(s) ==
    LET r == reqs[s]
    IN  /\ r.pc = "hashing"
        /\ reqs' = [reqs EXCEPT ![s] =
              IF r.body.password = Absent THEN Reply(r, 400, Message("TypeError"))
              ELSE [r EXCEPT !.hashedPassword = argon2Hash(r.body.password), !.pc = "saving"]]
        /\ UNCHANGED <<store, issued, now, ticks>>

\* await newUser.save(): schema validation, then the insert under the unique indexes
RegisterSave(s) ==
    LET r == reqs[s]
        newUser == [username |-> r.body.username, email |-> r.body.email,
                    password |-> r.hashedPassword]
    IN  /\ r.pc = "saving"
        /\ r.route = "POST /users/register"
        /\ IF ~(Required(newUser.username) /\ Required(newUser.email))
           THEN /\ reqs' = [reqs EXCEPT ![s] = Reply(r, 400, Message("ValidationError"))]
                /\ UNCHANGED users
           ELSE IF UniqueViolation(users, newUser)
           THEN /\ reqs' = [reqs EXCEPT ![s] = Reply(r, 400, Message("E11000 duplicate key"))]
                /\ UNCHANGED users
           ELSE /\ users' = Append(users, newUser)
                /\ reqs' = [reqs EXCEPT ![s] =
                              Reply(r, 201, Message("User registered successfully"))]
        /\ UNCHANGED <<posts, groups, messages, issued, now, ticks>>

\* ---------------------------------------------------------- app.post('/users/login')
\* a login with a body from `bodies` arrives: User.findOne is called
LoginStart(s, bodies) ==
    /\ Free(s)
    /\ HasRoom("POST /users/login")
    /\ \E b \in bodies :
        reqs' = [reqs EXCEPT ![s] =
            [Request("POST /users/login", NoHeader, NullId, b) EXCEPT !.pc = "finding"]]
    /\ UNCHANGED <<store, issued, now, ticks>>

\* await User.findOne({ email }) settles; argon2.verify is called
LoginFind(s) ==
    LET r == reqs[s]
        user == FindUserByEmail(r.body.email)
    IN  /\ r.pc = "finding"
        /\ reqs' = [reqs EXCEPT ![s] =
              IF user = NullId THEN Reply(r, 404, Message("User not found"))
              ELSE [r EXCEPT !.found = user, !.pc = "verifying"]]
        /\ UNCHANGED <<store, issued, now, ticks>>

\* await argon2.verify settles (it rejects for a missing password); then jwt.sign
\* and the response
LoginVerify(s) ==
    LET r == reqs[s]
        user == users[r.found]
        token == jwtSign(r.found, now)
    IN  /\ r.pc = "verifying"
        /\ IF r.body.password = Absent
           THEN /\ reqs' = [reqs EXCEPT ![s] = Reply(r, 400, Message("TypeError"))]
                /\ UNCHANGED issued
           ELSE IF ~argon2Verify(user.password, r.body.password)
           THEN /\ reqs' = [reqs EXCEPT ![s] = Reply(r, 400, Message("Invalid password"))]
                /\ UNCHANGED issued
           ELSE /\ reqs' = [reqs EXCEPT ![s] = Reply(r, 200, [token |-> token])]
                /\ issued' = issued \cup {token}
        /\ UNCHANGED <<store, now, ticks>>

\* ----------------------------------------------------------- guarded handlers
AtHandler(s, route) == reqs[s].pc = "handler" /\ reqs[s].route = route

\* app.post('/posts'): await newPost.save()
CreatePost(s) ==
    LET r == reqs[s]
        newPost == [author |-> PostAuthor(r), content |-> r.body.content,
                    group |-> PostGroup(r)]
    IN  /\ AtHandler(s, "POST /posts")
        /\ IF ValidPost(newPost)
           THEN /\ posts' = Append(posts, newPost)
                /\ reqs' = [reqs EXCEPT ![s] = Reply(r, 201, [doc |-> newPost])]
           ELSE /\ reqs' = [reqs EXCEPT ![s] = Reply(r, 400, Message("ValidationError"))]
                /\ UNCHANGED posts
        /\ UNCHANGED <<users, groups, messages, issued, now, ticks>>

\* app.get('/posts'): await Post.find().populate(...)
GetPosts(s) ==
    LET r == reqs[s]
    IN  /\ AtHandler(s, "GET /posts")
        /\ reqs' = [reqs EXCEPT ![s] = Reply(r, 200, [list |-> PopulateAll(posts)])]
        /\ UNCHANGED <<store, issued, now, ticks>>

\* app.post('/groups'): await newGroup.save()
CreateGroup(s) ==
    LET r == reqs[s]
        newGroup == [name |-> r.body.name, members |-> GroupMembers(r)]
    IN  /\ AtHandler(s, "POST /groups")
        /\ IF ValidGroup(newGroup)
           THEN /\ groups' = Append(groups, newGroup)
                /\ reqs' = [reqs EXCEPT ![s] = Reply(r, 201, [doc |-> newGroup])]
           ELSE /\ reqs' = [reqs EXCEPT ![s] = Reply(r, 400, Message("ValidationError"))]
                /\ UNCHANGED groups
        /\ UNCHANGED <<users, posts, messages, issued, now, ticks>>

\* app.get('/groups/:groupId/posts'): await Post.find({ group: groupId }).populate(...)
GetGroupPosts(s) ==
    LET r == reqs[s]
    IN  /\ AtHandler(s, "GET /groups/:groupId/posts")
        /\ reqs' = [reqs EXCEPT ![s] =
              IF ~CastsToObjectId(r.groupId) THEN Reply(r, 400, Message("CastError"))
              ELSE Reply(r, 200, [list |-> PopulateAll(FindPosts(r.groupId))])]
        /\ UNCHANGED <<store, issued, now, ticks>>

\* app.post('/groups/:groupId/posts'), await Group.findById settles: the
\* membership gate, then new Post(...) and the call of save()
GroupPostFind(s) ==
    LET r == reqs[s]
        group == FindGroupById(r.groupId)
    IN  /\ AtHandler(s, "POST /groups/:groupId/posts")
        /\ reqs' = [reqs EXCEPT ![s] =
              IF ~CastsToObjectId(r.groupId) THEN Reply(r, 400, Message("CastError"))
              ELSE IF group = NullId THEN Reply(r, 404, Message("Group not found"))
              ELSE IF ~IsMember(groups[group], r.user)
              THEN Reply(r, 403, Message("You are not a member of this group"))
              ELSE [r EXCEPT !.pc = "saving"]]
        /\ UNCHANGED <<store, issued, now, ticks>>

\* app.post('/groups/:groupId/posts'): await newGroupPost.save() settles
GroupPostSave(s) ==
    LET r == reqs[s]
        newGroupPost == [author |-> PostAuthor(r), content |-> r.body.content,
                         group |-> PostGroup(r)]
    IN  /\ r.pc = "saving"
        /\ r.route = "POST /groups/:groupId/posts"
        /\ IF ValidPost(newGroupPost)
           THEN /\ posts' = Append(posts, newGroupPost)
                /\ reqs' = [reqs EXCEPT ![s] = Reply(r, 201, [doc |-> newGroupPost])]
           ELSE /\ reqs' = [reqs EXCEPT ![s] = Reply(r, 400, Message("ValidationError"))]
                /\ UNCHANGED posts
        /\ UNCHANGED <<users, groups, messages, issued, now, ticks>>

\* app.post('/messages'): await newMessage.save()
CreateMessage(s) ==
    LET r == reqs[s]
        newMessage == [sender |-> MessageSender(r), receiver |-> r.body.receiver,
                       content |-> r.body.content]
    IN  /\ AtHandler(s, "POST /messages")
        /\ IF ValidMessage(newMessage)
           THEN /\ messages' = Append(messages, newMessage)
                /\ reqs' = [reqs EXCEPT ![s] = Reply(r, 201, [doc |-> newMessage])]
           ELSE /\ reqs' = [reqs EXCEPT ![s] = Reply(r, 400, Message("ValidationError"))]
                /\ UNCHANGED messages
        /\ UNCHANGED <<users, posts, groups, issued, now, ticks>>

\* the hash or store operation a pending request awaits rejects (resource
\* exhaustion, the store unreachable): the handler's catch answers 400 with
\* err.message
OperationFails(s) ==
    /\ Pending(s)
    /\ reqs' = [reqs EXCEPT ![s] = Reply(@, 400, Message("InternalError"))]
    /\ UNCHANGED <<store, issued, now, ticks>>

\* ------------------------------------------------------------- what clients send
RegisterBodies ==
    [username : Usernames \cup {Absent}, email : Emails \cup {Absent},
     password : {"pw1", Absent}]
LoginBodies == [email : Emails \cup {Absent}, password : Passwords \cup {Absent}]

\* the registrations and logins of two users, well-formed
RegisterSeeds ==
    {[username |-> "alice", email |-> "a@x.com", password |-> "pw1"],
     [username |-> "bob", email |-> "b@x.com", password |-> "pw1"]}
LoginSeeds == [email : Emails, password : {"pw1"}]

\* what a client can put in the Authorization header: nothing, an empty value,
\* a string that is no token, a token login gave out, or such a token altered
Headers == {NoHeader, EmptyHeader, Garbage} \cup issued \cup {Alter(t) : t \in issued}

\* bodies of the creating routes; author, members and sender are fields a client
\* may add although no handler reads them
PostBodies(contents, authors) == [content : contents, author : authors]
GroupBodies(names, members) == [name : names, members : members]
MessageBodies(receivers, contents, senders) ==
    [receiver : receivers, content : contents, sender : senders]

GuardedRequests(hdrs, gids, contents, names, receivers, spoofs) ==
    {Request("POST /posts", h, NullId, b) : h \in hdrs, b \in PostBodies(contents, spoofs)}
    \cup {Request("GET /posts", h, NullId, EmptyBody) : h \in hdrs}
    \cup {Request("POST /groups", h, NullId, b) : h \in hdrs, b \in GroupBodies(names, spoofs)}
    \cup {Request("GET /groups/:groupId/posts", h, g, EmptyBody) : h \in hdrs, g \in gids}
    \cup {Request("POST /groups/:groupId/posts", h, g, b) :
            h \in hdrs, g \in gids, b \in PostBodies(contents, spoofs)}
    \cup {Request("POST /messages", h, NullId, b) :
            h \in hdrs, b \in MessageBodies(receivers, contents, spoofs)}

OnRoutes(requests, routes) == {r \in requests : r.route \in routes}

AllRequests ==
    GuardedRequests(Headers, GroupIds \cup {BadId}, {"hi", Absent}, {"club", Absent},
                    UserIds \cup {NullId}, UserIds \cup {NullId})

\* ---------------------------------------------------------------- the system
\* the continuations of the account routes
AccountSteps(s) ==
    \/ RegisterHashed(s)
    \/ RegisterSave(s)
    \/ LoginFind(s)
    \/ LoginVerify(s)

Next ==
    \/ Tick
    \/ \E s \in Slots :
        \/ Home(s)
        \/ RegisterStart(s, RegisterBodies)
        \/ LoginStart(s, LoginBodies)
        \/ Authenticate(s, AllRequests)
        \/ AccountSteps(s)
        \/ CreatePost(s)
        \/ GetPosts(s)
        \/ CreateGroup(s)
        \/ GetGroupPosts(s)
        \/ GroupPostFind(s)
        \/ GroupPostSave(s)
        \/ CreateMessage(s)

\* the whole server, every hash and store operation succeeding
Spec == Init /\ [][Next]_vars

\* clients that only register and log in
NextAccounts ==
    \E s \in Slots :
        \/ RegisterStart(s, RegisterBodies)
        \/ LoginStart(s, LoginBodies)
        \/ AccountSteps(s)

SpecAccounts == Init /\ [][NextAccounts]_vars

\* one user, and every guarded route called with every kind of Authorization
\* header and a well-formed body
Alice == [username |-> "alice", email |-> "a@x.com", password |-> "pw1"]
GuardRequests == GuardedRequests(Headers, {1}, {"hi"}, {"club"}, {1}, {NullId})

NextGuard ==
    \E s \in Slots :
        \/ RegisterStart(s, {Alice})
        \/ LoginStart(s, {[email |-> Alice.email, password |-> Alice.password]})
        \/ AccountSteps(s)
        \/ Authenticate(s, GuardRequests)
        \/ CreatePost(s)
        \/ GetPosts(s)
        \/ CreateGroup(s)
        \/ GetGroupPosts(s)
        \/ GroupPostFind(s)
        \/ GroupPostSave(s)
        \/ CreateMessage(s)

SpecGuard == Init /\ [][NextGuard]_vars

\* two users holding valid tokens, who create groups and posts and read them
\* back, with well-formed and ill-formed group ids and contents
GroupRoutes ==
    {"POST /posts", "GET /posts", "POST /groups", "GET /groups/:groupId/posts",
     "POST /groups/:groupId/posts"}
GroupRequests ==
    OnRoutes(GuardedRequests(issued, GroupIds \cup {BadId}, {"hi", Absent}, {"club"},
                             {NullId}, {NullId}),
             GroupRoutes)

NextGroups ==
    \E s \in Slots :
        \/ RegisterStart(s, RegisterSeeds)
        \/ LoginStart(s, LoginSeeds)
        \/ AccountSteps(s)
        \/ Authenticate(s, GroupRequests)
        \/ CreatePost(s)
        \/ GetPosts(s)
        \/ CreateGroup(s)
        \/ GetGroupPosts(s)
        \/ GroupPostFind(s)
        \/ GroupPostSave(s)

SpecGroups == Init /\ [][NextGroups]_vars

\* two users holding valid tokens, who create posts, groups and messages and
\* put an author, members or sender field of their choice in the body
IdentityRoutes ==
    {"POST /posts", "POST /groups", "POST /groups/:groupId/posts", "POST /messages"}
IdentityRequests ==
    OnRoutes(GuardedRequests(issued, {1}, {"hi"}, {"club"}, {1}, UserIds \cup {NullId}),
             IdentityRoutes)

NextIdentity ==
    \E s \in Slots :
        \/ RegisterStart(s, RegisterSeeds)
        \/ LoginStart(s, LoginSeeds)
        \/ AccountSteps(s)
        \/ Authenticate(s, IdentityRequests)
        \/ CreatePost(s)
        \/ CreateGroup(s)
        \/ GroupPostFind(s)
        \/ GroupPostSave(s)
        \/ CreateMessage(s)

SpecIdentity == Init /\ [][NextIdentity]_vars

\* one user who logs in at different times and presents the tokens, genuine or
\* altered, to a guarded route while time passes
TimeRequests == OnRoutes(GuardedRequests(Headers, {1}, {"hi"}, {"club"}, {1}, {NullId}),
                         {"GET /posts"})

NextTime ==
    \/ Tick
    \/ \E s \in Slots :
        \/ RegisterStart(s, {Alice})
        \/ LoginStart(s, {[email |-> Alice.email, password |-> Alice.password]})
        \/ AccountSteps(s)
        \/ Authenticate(s, TimeRequests)
        \/ GetPosts(s)

SpecTime == Init /\ [][NextTime]_vars

\* the continuation of whatever the request on connection s awaits
Continue(s) ==
    \/ AccountSteps(s)
    \/ CreatePost(s)
    \/ GetPosts(s)
    \/ CreateGroup(s)
    \/ GetGroupPosts(s)
    \/ GroupPostFind(s)
    \/ GroupPostSave(s)
    \/ CreateMessage(s)

\* one user and every route, with requests the guard and the handlers refuse
\* (no header, a bad token, an unknown email, a wrong or a missing password, a
\* group not stored) and awaited operations that may reject
FaultRequests ==
    GuardedRequests({NoHeader, Garbage} \cup issued, {1}, {"hi"}, {"club"}, {1}, {NullId})

NextFaulty ==
    \E s \in Slots :
        \/ Home(s)
        \/ RegisterStart(s, {Alice, [Alice EXCEPT !.password = Absent]})
        \/ LoginStart(s, [email : Emails, password : Passwords])
        \/ Authenticate(s, FaultRequests)
        \/ Continue(s)
        \/ OperationFails(s)

\* the event loop runs every continuation whose awaited operation has settled,
\* and every awaited operation settles
FaultSpec ==
    /\ Init
    /\ [][NextFaulty]_vars
    /\ \A s \in Slots : WF_vars(Continue(s))

\* ===================================================================== claims
Answered(s) == reqs[s].pc = "done"

\* the step answers the request pending on connection s
Answers(s) == Pending(s) /\ Answered(s)'

\* the response the step leaves on connection s
Status(s) == reqs'[s].res.status
Says(s, text) == reqs'[s].res.body = Message(text)

NoTwoUsersAlike(coll) ==
    \A i, j \in 1..Len(coll) :
        i # j => coll[i].username # coll[j].username /\ coll[i].email # coll[j].email

Repeats(body) ==
    \E i \in 1..Len(users) :
        users[i].username = body.username \/ users[i].email = body.email

AddsOneUser == Len(users') = Len(users) + 1 /\ SubSeq(users', 1, Len(users)) = users

\* C4 as stated: no two Users share a username or an email; a registration that
\* repeats a username or an email is answered 400 and adds nothing, and every
\* registration with a fresh username and email is answered 201 and adds one User.
C4_AsStated ==
    [][\A s \in Slots :
        (Answers(s) /\ reqs[s].route = "POST /users/register") =>
            /\ NoTwoUsersAlike(users')
            /\ Repeats(reqs[s].body) => Status(s) = 400 /\ users' = users
            /\ ~Repeats(reqs[s].body) => Status(s) = 201 /\ AddsOneUser]_vars

Complete(body) ==
    body.username # Absent /\ body.email # Absent /\ body.password # Absent

\* C4 (amended): no two Users share a username or an email, also after concurrent
\* registrations; a registration that repeats a username or an email of an
\* existing User is answered 400 and adds nothing; a registration that gives a
\* username, an email and a password, the username and email fresh, is answered
\* 201 and adds exactly one User; one that leaves a field out is answered 400
\* and adds nothing.
C4_Registration ==
    [][/\ NoTwoUsersAlike(users')
       /\ \A s \in Slots :
            (Answers(s) /\ reqs[s].route = "POST /users/register") =>
                /\ Repeats(reqs[s].body) => Status(s) = 400 /\ users' = users
                /\ ~Complete(reqs[s].body) => Status(s) = 400 /\ users' = users
                /\ (Complete(reqs[s].body) /\ ~Repeats(reqs[s].body)) =>
                        /\ Status(s) = 201
                        /\ AddsOneUser
                        /\ users'[Len(users')].username = reqs[s].body.username
                        /\ users'[Len(users')].email = reqs[s].body.email
       /\ (users' # users) =>
            \E s \in Slots : Answers(s) /\ reqs[s].route = "POST /users/register"]_vars

\* one registration was stored and answered 201, another that repeats it was
\* answered 400 for the duplicate, and one User is stored
C4_Witness ==
    /\ Len(users) = 1
    /\ \E s, t \in Slots :
        /\ s # t
        /\ reqs[s].route = "POST /users/register" /\ reqs[s].res.status = 201
        /\ reqs[t].route = "POST /users/register" /\ reqs[t].res.status = 400
        /\ reqs[t].res.body = Message("E11000 duplicate key")

\* the step moves the request pending on connection s
Moves(s) == Pending(s) /\ reqs'[s] # reqs[s]

UsersWith(email) == {i \in 1..Len(users) : users[i].email = email}

\* the stored hash was made from this plaintext
MadeFrom(hash, plain) == plain # Absent /\ hash = argon2Hash(plain)

\* C5: a login with an email no User has is answered 404; with a User's email and
\* a password that does not verify against the stored hash, 400; with one that
\* verifies, 200 and a token whose verified identity is that User's id.  Only
\* the last issues a token, login changes no collection, and every token
\* issued carries the id of a stored User.
C5_Login ==
    [][/\ \A s \in Slots :
            (Moves(s) /\ reqs[s].route = "POST /users/login") =>
                LET body == reqs[s].body
                    token == reqs'[s].res.body.token
                IN  /\ store' = store
                    /\ UsersWith(body.email) = {} =>
                            Answers(s) /\ Status(s) = 404 /\ issued' = issued
                    /\ \A i \in UsersWith(body.email) :
                        /\ reqs[s].pc = "finding" => ~Answers(s) /\ issued' = issued
                        /\ (reqs[s].pc = "verifying" /\ ~MadeFrom(users[i].password, body.password)) =>
                                Answers(s) /\ Status(s) = 400 /\ issued' = issued
                        /\ (reqs[s].pc = "verifying" /\ MadeFrom(users[i].password, body.password)) =>
                                /\ Answers(s) /\ Status(s) = 200
                                /\ DOMAIN reqs'[s].res.body = {"token"}
                                /\ jwtVerify(token, now) = [id |-> i, valid |-> TRUE]
                                /\ issued' = issued \cup {token}
       /\ \A t \in issued' : t.id \in 1..Len(users')
       /\ (issued' # issued) =>
            \E s \in Slots :
                Answers(s) /\ reqs[s].route = "POST /users/login" /\ Status(s) = 200]_vars

\* a login with the right password was answered 200 with a token, and one with
\* the wrong password 400 'Invalid password', for the same User
C5_Witness ==
    \E s, t \in Slots :
        /\ reqs[s].route = "POST /users/login" /\ reqs[s].res.status = 200
        /\ reqs[s].res.body.token \in issued
        /\ users[reqs[s].res.body.token.id].email = "a@x.com"
        /\ reqs[t].route = "POST /users/login"
        /\ reqs[t].res = [status |-> 400, body |-> Message("Invalid password")]

\* a request arrives on connection s and runs to its first await or its answer
Arrives(s) == Free(s) /\ reqs'[s] # reqs[s]

\* the header is a token login gave out, unaltered and not yet expired
Verifies(hdr) == hdr \in issued /\ now < hdr.exp

RefusedWith(s, code, text) ==
    /\ Answered(s)'
    /\ reqs'[s].res = [status |-> code, body |-> Message(text)]
    /\ reqs'[s].user = NullId
    /\ store' = store

\* the handlers of the guarded routes run for verified callers only
HandlersBehindGuard ==
    /\ \A s \in Slots :
        (Pending(s) /\ reqs[s].route \in GuardedRoutes)' =>
            (reqs[s].hdr \in issued /\ reqs[s].user = reqs[s].hdr.id)'
    /\ <<posts, groups, messages>>' # <<posts, groups, messages>> =>
            \E s \in Slots : Pending(s) /\ reqs[s].route \in GuardedRoutes /\ Answers(s)

\* C1 as stated: on a guarded route, no Authorization header is answered 401, and
\* every header value that fails verification is answered 400.
C1_AsStated ==
    [][\A s \in Slots :
        (Arrives(s) /\ reqs'[s].route \in GuardedRoutes) =>
            LET hdr == reqs'[s].hdr
            IN  /\ hdr = NoHeader => RefusedWith(s, 401, "Access denied")
                /\ (hdr # NoHeader /\ ~Verifies(hdr)) => RefusedWith(s, 400, "Invalid token")]_vars

\* C1 (amended): on every guarded route, a request with no Authorization header,
\* or with an empty one, is answered 401 'Access denied'; one whose non-empty
\* header value fails verification is answered 400 'Invalid token'; in both
\* cases no handler runs and no collection changes.  Only a request whose token
\* verifies gets the verified identity attached and its handler run.
C1_Guard ==
    [][/\ \A s \in Slots :
            (Arrives(s) /\ reqs'[s].route \in GuardedRoutes) =>
                LET hdr == reqs'[s].hdr
                IN  /\ hdr \in {NoHeader, EmptyHeader} =>
                            RefusedWith(s, 401, "Access denied")
                    /\ (hdr \notin {NoHeader, EmptyHeader} /\ ~Verifies(hdr)) =>
                            RefusedWith(s, 400, "Invalid token")
                    /\ Verifies(hdr) =>
                            /\ reqs'[s].pc = "handler"
                            /\ reqs'[s].user = hdr.id
                            /\ store' = store
       /\ HandlersBehindGuard]_vars

\* an empty Authorization header was answered 401 and an altered token 400
C1_Witness ==
    \E s, t \in Slots :
        /\ reqs[s].route \in GuardedRoutes /\ reqs[s].hdr = EmptyHeader
        /\ reqs[s].res = [status |-> 401, body |-> Message("Access denied")]
        /\ reqs[t].route \in GuardedRoutes /\ reqs[t].hdr \in {Alter(k) : k \in issued}
        /\ reqs[t].res = [status |-> 400, body |-> Message("Invalid token")]

\* the step accepts the arriving request on connection s as identity id
AcceptedAs(s, id) == reqs'[s].pc = "handler" /\ reqs'[s].user = id

\* C6: a token issued by login embeds the User's id and an expiry 3600 seconds
\* after issuance.  Presented before its expiry it is accepted and yields that
\* id, whatever time has passed and whatever else was issued; presented after
\* its expiry, or with an altered signature, it is refused, both times with
\* 400 'Invalid token'.
C6_TokenLifetime ==
    [][/\ \A s \in Slots :
            (Answers(s) /\ reqs[s].route = "POST /users/login" /\ Status(s) = 200) =>
                LET token == reqs'[s].res.body.token
                IN  /\ token.id = reqs[s].found
                    /\ users[token.id].email = reqs[s].body.email
                    /\ token.iat = now
                    /\ token.exp = now + 3600
       /\ \A s \in Slots :
            (Arrives(s) /\ reqs'[s].route \in GuardedRoutes) =>
                LET hdr == reqs'[s].hdr
                IN  /\ (hdr \in issued /\ now < hdr.exp) => AcceptedAs(s, hdr.id)
                    /\ (hdr \in issued /\ now > hdr.exp) =>
                            RefusedWith(s, 400, "Invalid token")
                    /\ (\E t \in issued : hdr = Alter(t)) =>
                            RefusedWith(s, 400, "Invalid token")]_vars

\* a request of a token's holder was accepted and answered and, after the
\* token's expiry, a request presenting it was refused
C6_Witness ==
    \E s, t \in Slots, token \in issued :
        /\ now > token.exp
        /\ reqs[s].route = "GET /posts" /\ reqs[s].res.status = 200
        /\ reqs[s].user = token.id
        /\ reqs[t].route = "GET /posts" /\ reqs[t].hdr = token
        /\ reqs[t].res = [status |-> 400, body |-> Message("Invalid token")]

GroupExists(id) == id \in 1..Len(groups)

\* the step stores exactly one more post, this one
StoresPost(post) == posts' = Append(posts, post)

OnGroupPost(s) == Moves(s) /\ reqs[s].route = "POST /groups/:groupId/posts"

\* C2 as stated: 404 whenever no Group has the groupId, 403 for a non-member,
\* and for a member 201 with the Post stored.
C2_AsStated ==
    [][\A s \in Slots :
        OnGroupPost(s) =>
            LET r == reqs[s]
            IN  /\ ~GroupExists(r.groupId) =>
                        Answers(s) /\ Status(s) = 404 /\ store' = store
                /\ (GroupExists(r.groupId) /\ r.user \notin groups[r.groupId].members) =>
                        Answers(s) /\ Status(s) = 403 /\ store' = store
                /\ (GroupExists(r.groupId) /\ r.user \in groups[r.groupId].members
                        /\ r.pc = "saving") =>
                        /\ Answers(s) /\ Status(s) = 201
                        /\ \E content \in {"hi", Absent} :
                            StoresPost([author |-> r.user, content |-> content,
                                        group |-> r.groupId])]_vars

\* C2 (amended): POST /groups/:groupId/posts by an authenticated identity: if
\* groupId is a well-formed id and no Group has it the response is 404; if the
\* Group exists and the identity is not in its members, 403; if the identity is
\* in its members and the body has a content, 201 and a Post is stored whose
\* group is groupId and whose author is the caller.  A groupId that is no
\* well-formed id, and a member's request without content, are answered 400.
\* In the 404, 403 and 400 cases every collection is left unchanged, and in all
\* cases the Group is.
C2_GroupPost ==
    [][\A s \in Slots :
        OnGroupPost(s) =>
            LET r == reqs[s]
                member == GroupExists(r.groupId) /\ r.user \in groups[r.groupId].members
            IN  /\ groups' = groups
                /\ r.groupId = BadId =>
                        Answers(s) /\ Status(s) = 400 /\ store' = store
                /\ (r.groupId # BadId /\ ~GroupExists(r.groupId)) =>
                        /\ Answers(s) /\ Status(s) = 404 /\ store' = store
                        /\ Says(s, "Group not found")
                /\ (GroupExists(r.groupId) /\ ~member) =>
                        /\ Answers(s) /\ Status(s) = 403 /\ store' = store
                        /\ Says(s, "You are not a member of this group")
                /\ (member /\ r.pc = "handler") => ~Answers(s) /\ store' = store
                /\ (member /\ r.pc = "saving" /\ r.body.content = Absent) =>
                        Answers(s) /\ Status(s) = 400 /\ store' = store
                /\ (member /\ r.pc = "saving" /\ r.body.content # Absent) =>
                        /\ Answers(s) /\ Status(s) = 201
                        /\ StoresPost([author |-> r.user, content |-> r.body.content,
                                       group |-> r.groupId])
                        /\ <<users, groups, messages>>' = <<users, groups, messages>>
                /\ r.pc = "saving" => member]_vars

\* the group's creator posted into it (201) and the other user was refused (403)
C2_Witness ==
    /\ Len(groups) = 1
    /\ \E s, t \in Slots :
            /\ reqs[s].route = "POST /groups/:groupId/posts" /\ reqs[s].res.status = 201
            /\ reqs[s].res.body.doc.group = 1
            /\ reqs[s].res.body.doc.author = reqs[s].user
            /\ reqs[s].res.body.doc \in {posts[i] : i \in 1..Len(posts)}
            /\ reqs[t].route = "POST /groups/:groupId/posts" /\ reqs[t].res.status = 403
            /\ reqs[t].user \notin groups[1].members

\* C7: every stored Post's group is null or the id of a stored Group: POST /posts
\* stores group = null, the group route stores groupId only when that Group is
\* stored, and no step removes or changes a Group, whatever the interleaving of
\* the lookups and saves of concurrent requests.
C7_PostGroupExists ==
    [][/\ \A i \in 1..Len(posts') :
            posts'[i].group = NullId \/ posts'[i].group \in 1..Len(groups')
       /\ Len(groups') >= Len(groups) /\ SubSeq(groups', 1, Len(groups)) = groups
       /\ \A s \in Slots :
            (Moves(s) /\ posts' # posts) =>
                /\ posts' = Append(posts, posts'[Len(posts')])
                /\ reqs[s].route = "POST /posts" => posts'[Len(posts')].group = NullId
                /\ reqs[s].route = "POST /groups/:groupId/posts" =>
                        /\ posts'[Len(posts')].group = reqs[s].groupId
                        /\ GroupExists(reqs[s].groupId)]_vars

\* a Post of the feed and a Post of group 1 are stored, and a request for a
\* group that is not stored was answered 404
C7_Witness ==
    /\ Len(groups) = 1
    /\ {posts[i].group : i \in 1..Len(posts)} = {NullId, 1}
    /\ \E s \in Slots :
        /\ reqs[s].route = "POST /groups/:groupId/posts"
        /\ reqs[s].res = [status |-> 404, body |-> Message("Group not found")]

\* the response lists post p with its author populated
Lists(entry, p) ==
    /\ entry.group = p.group
    /\ entry.content = p.content
    /\ entry.author = [id |-> p.author, username |-> users[p.author].username]

\* the list holds exactly the stored posts at the indexes idx
ListsExactly(list, idx) ==
    /\ Len(list) = Cardinality(idx)
    /\ \A i \in idx : \E k \in 1..Len(list) : Lists(list[k], posts[i])
    /\ \A k \in 1..Len(list) : \E i \in idx : Lists(list[k], posts[i])

InGroup(g) == {i \in 1..Len(posts) : posts[i].group = g}

ReadsFeed(s) ==
    (Moves(s) /\ reqs[s].route = "GET /posts") =>
        /\ Answers(s) /\ Status(s) = 200 /\ store' = store
        /\ DOMAIN reqs'[s].res.body = {"list"}
        /\ ListsExactly(reqs'[s].res.body.list, 1..Len(posts))

ReadsGroup(s) ==
    /\ Answers(s) /\ Status(s) = 200 /\ store' = store
    /\ DOMAIN reqs'[s].res.body = {"list"}
    /\ ListsExactly(reqs'[s].res.body.list, InGroup(reqs[s].groupId))

\* C9 as stated: every GET /groups/:groupId/posts by an authenticated identity is
\* answered 200 with exactly the Posts of that group, and GET /posts with all.
C9_AsStated ==
    [][\A s \in Slots :
        /\ ReadsFeed(s)
        /\ (Moves(s) /\ reqs[s].route = "GET /groups/:groupId/posts") => ReadsGroup(s)]_vars

\* C9 (amended): GET /groups/:groupId/posts with a well-formed groupId, by any
\* authenticated identity, member of the group or not, is answered 200 with
\* exactly the stored Posts whose group equals groupId; with a groupId that is
\* no well-formed id it is answered 400.  GET /posts is answered 200 with every
\* stored Post.  All leave every collection unchanged.
C9_Reads ==
    [][\A s \in Slots :
        /\ ReadsFeed(s)
        /\ (Moves(s) /\ reqs[s].route = "GET /groups/:groupId/posts") =>
            /\ reqs[s].groupId # BadId => ReadsGroup(s)
            /\ reqs[s].groupId = BadId =>
                    Answers(s) /\ Status(s) = 400 /\ store' = store]_vars

\* with a feed Post and a group Post stored, a user who is no member of group 1
\* read the group and got the one group Post
C9_Witness ==
    /\ Len(posts) = 2
    /\ Len(groups) = 1
    /\ \E s \in Slots :
        /\ reqs[s].route = "GET /groups/:groupId/posts" /\ reqs[s].res.status = 200
        /\ reqs[s].user \notin groups[1].members
        /\ Len(reqs[s].res.body.list) = 1
        /\ reqs[s].res.body.list[1].group = 1

\* the identity verified from the token of the request on connection s
Caller(s) == reqs[s].hdr.id

\* C3: under any interleaving, the author of every Post and the sender of every
\* Message stored is the identity verified from the token of the request that
\* stored it, whatever author or sender field its body carries; every pending
\* request carries the identity of its own token.
C3_IdentityFromToken ==
    [][/\ \A s \in Slots :
            /\ (Moves(s) /\ posts' # posts) =>
                /\ reqs[s].hdr \in issued
                /\ \E post \in {posts'[Len(posts')]} :
                    posts' = Append(posts, post) /\ post.author = Caller(s)
            /\ (Moves(s) /\ messages' # messages) =>
                /\ reqs[s].hdr \in issued
                /\ \E message \in {messages'[Len(messages')]} :
                    messages' = Append(messages, message) /\ message.sender = Caller(s)
            /\ (Pending(s) /\ reqs[s].route \in GuardedRoutes)' =>
                (reqs[s].hdr \in issued /\ reqs[s].user = reqs[s].hdr.id)'
       /\ (posts' # posts \/ messages' # messages) => \E s \in Slots : Moves(s)]_vars

\* a Message is stored with the sender its request's token named, while the
\* other user has a request pending whose body names the first as author or sender
C3_Witness ==
    \E s, t \in Slots :
        /\ reqs[s].route = "POST /messages" /\ reqs[s].res.status = 201
        /\ reqs[s].res.body.doc.sender = reqs[s].user
        /\ reqs[s].res.body.doc \in {messages[i] : i \in 1..Len(messages)}
        /\ Pending(t) /\ reqs[t].route \in {"POST /posts", "POST /groups/:groupId/posts"}
        /\ reqs[t].user # reqs[s].user
        /\ reqs[t].body.author = reqs[s].user

\* C10: a Group's members are exactly the one identity whose request created
\* it, whatever members field the body carries, and never change; so every
\* stored Post of a group is authored by the group's creator, and a request of
\* any other identity to post into it is answered 403 and stores nothing.
C10_MembersAreCreator ==
    [][/\ \A s \in Slots :
            /\ (Moves(s) /\ groups' # groups) =>
                /\ reqs[s].route = "POST /groups"
                /\ groups' = Append(groups, groups'[Len(groups')])
                /\ groups'[Len(groups')].members = {Caller(s)}
            /\ (OnGroupPost(s) /\ GroupExists(reqs[s].groupId)
                    /\ groups[reqs[s].groupId].members # {Caller(s)}) =>
                /\ Answers(s) /\ Status(s) = 403 /\ posts' = posts
       /\ groups' # groups => \E s \in Slots : Moves(s)
       /\ SubSeq(groups', 1, Len(groups)) = groups
       /\ \A i \in 1..Len(groups') : Cardinality(groups'[i].members) = 1
       /\ \A i \in 1..Len(posts') :
            posts'[i].group # NullId =>
                groups'[posts'[i].group].members = {posts'[i].author}]_vars

\* group 1 holds a Post of its creator, and the other user's Post into it was
\* refused
C10_Witness ==
    /\ Len(groups) = 1
    /\ \E i \in 1..Len(posts) : posts[i].group = 1 /\ groups[1].members = {posts[i].author}
    /\ \E s \in Slots :
        /\ reqs[s].route = "POST /groups/:groupId/posts" /\ reqs[s].res.status = 403
        /\ reqs[s].user \notin groups[1].members

ErrorStatuses == {400, 401, 403, 404}

\* what connection s shows of its request: nothing sent while it is pending, and
\* once answered one response, a success or an error status with { message }
OneResponse(s) ==
    /\ Pending(s) => reqs[s].sent = 0 /\ reqs[s].res = NoRes
    /\ Answered(s) =>
        /\ reqs[s].sent = 1
        /\ \/ reqs[s].res.status \in {200, 201}
           \/ /\ reqs[s].res.status \in ErrorStatuses
              /\ DOMAIN reqs[s].res.body = {"message"}

\* C8: every request to a defined route is eventually answered, exactly once,
\* whatever fails in token verification, hashing or the store: a failure is
\* answered with 400, 401, 403 or 404 and a body { message }, and the server
\* goes on answering the requests that follow.
C8_EveryRequestAnswered ==
    /\ [](\A s \in Slots : OneResponse(s))
    /\ [][\A s \in Slots :
            (Pending(s) /\ reqs'[s] # reqs[s] /\ ~Pending(s)') => Answers(s)]_vars
    /\ \A s \in Slots : Pending(s) ~> Answered(s)

\* an awaited operation failed and was answered 400, and the other connection
\* stored a Post and answered 201
C8_Witness ==
    \E s, t \in Slots :
        /\ reqs[s].res = [status |-> 400, body |-> Message("InternalError")]
        /\ reqs[s].sent = 1
        /\ reqs[t].route = "POST /posts" /\ reqs[t].res.status = 201
        /\ reqs[t].sent = 1
        /\ Len(posts) = 1

====
